---- MODULE Spec2Model ----
(***************************************************************************)
(* Heart-rate alert engine of the pebble-potsface watchface                *)
(* (src/src/c/main.c): the raw-sample window, the window delta, the alert  *)
(* flag with its 60 s one-shot AppTimer, and the heart-rate text.          *)
(*                                                                         *)
(* The Pebble event loop runs one handler at a time, so every handler is   *)
(* one atomic action.  Time is counted in whole seconds, as time(NULL)     *)
(* reports it; the AppTimer of HR_ALERT_WINDOW_SEC * 1000 ms is kept as    *)
(* the second at which it expires.                                         *)
(***************************************************************************)
EXTENDS Integers, Sequences, FiniteSets, TLC

(***************************************************************************)
(* Program constants (main.c:5-7).                                         *)
(***************************************************************************)
HR_ALERT_DELTA_BPM == 30
HR_ALERT_WINDOW_SEC == 60

(***************************************************************************)
(* Bounds of the model.  HR_SAMPLE_BUFFER_SIZE is 96 in main.c:7; the      *)
(* model keeps the same arrays at a smaller length.                        *)
(***************************************************************************)
HR_SAMPLE_BUFFER_SIZE == 3
MaxTime == 90

NULL == 0

\* The cast (uint32_t)x of a 32-bit signed x.  TLC's integers are 32 bits wide,
\* so the wrapped value 2^32 + x of a negative x is kept at the largest value
\* TLC can hold less |x| - 1: still far above every heart rate.
ToUint32(x) == IF x >= 0 THEN x ELSE 2147483647 + (x + 1)

(***************************************************************************)
(* Inputs of the model.                                                    *)
(***************************************************************************)
\* What the health service may report for a metric in one tick: whether the
\* metric is accessible, and what health_service_peek_current_value returns.
Reading(accessible, peek) == [accessible |-> accessible, peek |-> peek]
RawReadings == {Reading(FALSE, 70), Reading(TRUE, 0), Reading(TRUE, 70),
                Reading(TRUE, 99), Reading(TRUE, 100)}
FilteredReadings == {Reading(FALSE, 72), Reading(TRUE, -1), Reading(TRUE, 72)}
\* Seconds that may pass between two events.
ClockSteps == {30}
\* Background colours a settings message may carry: the default, and the
\* colour that is also the warning colour.
Colors == {"GColorBlack", "GColorRed"}
\* Colour-display build: PBL_IF_COLOR_ELSE(a, b) is a.
PBL_COLOR == TRUE

VARIABLES
    now,                      \* time(NULL), seconds since launch
    running,                  \* app_event_loop has not returned
    s_hr_alert_timer,         \* AppTimer handle or NULL
    s_hr_alert_active,
    s_hr_sample_values,       \* array [0 .. HR_SAMPLE_BUFFER_SIZE-1]
    s_hr_sample_times,        \* array [0 .. HR_SAMPLE_BUFFER_SIZE-1]
    s_hr_sample_count,
    s_last_filtered_hr,
    s_last_raw_hr,
    s_last_window_delta,
    s_hr_buffer,              \* text shown by s_hr_layer
    settings_BackgroundColor, \* settings.BackgroundColor
    window_background,        \* colour last given to window_set_background_color
    timers,                   \* the AppTimers the system holds pending
    vibes,                    \* calls of vibes_short_pulse so far
    oob,                      \* an array access left [0, HR_SAMPLE_BUFFER_SIZE-1]
    staleCancel,              \* app_timer_cancel was given a handle that is not pending
    recorded                  \* the samples given to prv_store_raw_hr_sample that it
                              \* took, the latest HR_SAMPLE_BUFFER_SIZE of them

vars == <<now, running, s_hr_alert_timer, s_hr_alert_active, s_hr_sample_values,
          s_hr_sample_times, s_hr_sample_count, s_last_filtered_hr, s_last_raw_hr,
          s_last_window_delta, s_hr_buffer, settings_BackgroundColor,
          window_background, timers, vibes, oob, staleCancel, recorded>>

Indices == 0 .. (HR_SAMPLE_BUFFER_SIZE - 1)

(***************************************************************************)
(* The sample window as the three statics, handled as one record           *)
(* [times, values, count, oob] by the operators below.                     *)
(***************************************************************************)
Window == [times  |-> s_hr_sample_times,
           values |-> s_hr_sample_values,
           count  |-> s_hr_sample_count,
           oob    |-> oob]

\* The shift loop "for (index = 1; index < count; index++) a[index-1] = a[index]"
\* followed by count--.  It reads index count-1 at most.
ShiftOut(w) ==
    [times  |-> [i \in Indices |->
                    IF i + 1 < w.count /\ i + 1 \in Indices THEN w.times[i + 1]
                                                            ELSE w.times[i]],
     values |-> [i \in Indices |->
                    IF i + 1 < w.count /\ i + 1 \in Indices THEN w.values[i + 1]
                                                            ELSE w.values[i]],
     count  |-> w.count - 1,
     oob    |-> w.oob \/ (w.count - 1 > HR_SAMPLE_BUFFER_SIZE - 1)]

\* prv_prune_old_hr_samples with ">=" for ">" in the age test.
RECURSIVE PruneAtWindowEdge(_, _)
PruneAtWindowEdge(w, t) ==
    IF w.count > 0 /\ (t - w.times[0]) >= HR_ALERT_WINDOW_SEC
    THEN PruneAtWindowEdge(ShiftOut(w), t)
    ELSE w

RECURSIVE prv_prune_old_hr_samples(_, _)
prv_prune_old_hr_samples(w, t) ==
    IF w.count > 0 /\ (t - w.times[0]) > HR_ALERT_WINDOW_SEC
    THEN prv_prune_old_hr_samples(ShiftOut(w), t)
    ELSE w

\* The append putting the new sample first and moving the others up by one.
AppendAtFront(w, raw_hr, t) ==
    IF w.count \in Indices
    THEN [times  |-> [i \in Indices |-> IF i = 0 THEN t
                                        ELSE IF i <= w.count THEN w.times[i - 1]
                                        ELSE w.times[i]],
          values |-> [i \in Indices |-> IF i = 0 THEN raw_hr
                                        ELSE IF i <= w.count THEN w.values[i - 1]
                                        ELSE w.values[i]],
          count  |-> w.count + 1,
          oob    |-> w.oob]
    ELSE [w EXCEPT !.count = w.count + 1, !.oob = TRUE]

\* The three lines that write the new sample at index count and count++.
AppendSample(w, raw_hr, t) ==
    IF w.count \in Indices
    THEN [times  |-> [w.times EXCEPT ![w.count] = t],
          values |-> [w.values EXCEPT ![w.count] = raw_hr],
          count  |-> w.count + 1,
          oob    |-> w.oob]
    ELSE [w EXCEPT !.count = w.count + 1, !.oob = TRUE]

\* The capacity test with ">" for ">=".
EvictWhenOverFull(w) ==
    IF w.count > HR_SAMPLE_BUFFER_SIZE THEN ShiftOut(w) ELSE w

\* The eviction with count-- alone, the shift loop left out: the newest goes.
EvictDropsNewest(w) ==
    IF w.count >= HR_SAMPLE_BUFFER_SIZE THEN [w EXCEPT !.count = w.count - 1] ELSE w

\* "if (s_hr_sample_count >= HR_SAMPLE_BUFFER_SIZE)": drop the oldest sample.
EvictIfFull(w) ==
    IF w.count >= HR_SAMPLE_BUFFER_SIZE THEN ShiftOut(w) ELSE w

\* prv_store_raw_hr_sample without the "if (raw_hr <= 0) return;".
StoreUnguarded(w, raw_hr, t) ==
    AppendSample(EvictIfFull(prv_prune_old_hr_samples(w, t)), raw_hr, t)

prv_store_raw_hr_sample(w, raw_hr, t) ==
    IF raw_hr <= 0
    THEN w
    ELSE AppendSample(EvictIfFull(prv_prune_old_hr_samples(w, t)), raw_hr, t)

RECURSIVE DeltaLoop(_, _, _, _)
DeltaLoop(w, index, min_value, max_value) ==
    IF index < w.count /\ index \in Indices
    THEN DeltaLoop(w, index + 1,
                   IF w.values[index] < min_value THEN w.values[index] ELSE min_value,
                   IF w.values[index] > max_value THEN w.values[index] ELSE max_value)
    ELSE ToUint32(max_value - min_value)

\* prv_calculate_window_delta_bpm with "index < s_hr_sample_count - 1" in the
\* loop: the newest sample is left out.
RECURSIVE DeltaLoopShort(_, _, _, _)
DeltaLoopShort(w, index, min_value, max_value) ==
    IF index < w.count - 1 /\ index \in Indices
    THEN DeltaLoopShort(w, index + 1,
                   IF w.values[index] < min_value THEN w.values[index] ELSE min_value,
                   IF w.values[index] > max_value THEN w.values[index] ELSE max_value)
    ELSE ToUint32(max_value - min_value)

DeltaSkipsNewest(w) ==
    IF w.count < 2 THEN 0
    ELSE DeltaLoopShort(w, 1, w.values[0], w.values[0])

prv_calculate_window_delta_bpm(w) ==
    IF w.count < 2 THEN 0
    ELSE DeltaLoop(w, 1, w.values[0], w.values[0])

\* prv_get_heart_rate_metric without the accessibility test.
GetMetricIgnoringAccess(accessible, peek) ==
    IF peek > 0 THEN peek ELSE 0

\* prv_get_heart_rate_metric: 0 unless the metric is accessible and positive.
prv_get_heart_rate_metric(accessible, peek) ==
    IF ~accessible THEN 0
    ELSE IF peek > 0 THEN peek ELSE 0

\* sizeof(s_hr_buffer) in prv_update_hr_display.
HR_BUFFER_SIZE == 24

\* snprintf into s_hr_buffer: at most HR_BUFFER_SIZE - 1 bytes are kept.  The
\* one character of the format that is not a single byte is the Δ (2 bytes in
\* UTF-8), which a text too long for the buffer always holds before the cut.
Snprintf(text, wideChars) ==
    IF Len(text) + wideChars <= HR_BUFFER_SIZE - 1 THEN text
    ELSE SubSeq(text, 1, HR_BUFFER_SIZE - 1 - wideChars)

\* prv_update_hr_display choosing the branch by "s_last_filtered_hr >= 0".
HrTextShowsZero(filtered, delta) ==
    IF filtered >= 0
    THEN Snprintf(ToString(ToUint32(filtered)) \o " BPM | Δ"
                    \o ToString(ToUint32(delta)), 1)
    ELSE Snprintf("-- BPM", 0)

\* The text prv_update_hr_display gives to s_hr_layer.
HrText(filtered, delta) ==
    IF filtered > 0
    THEN Snprintf(ToString(ToUint32(filtered)) \o " BPM | Δ"
                    \o ToString(ToUint32(delta)), 1)
    ELSE Snprintf("-- BPM", 0)

\* The colour prv_update_display gives to the window.
BackgroundFor(active, configured) ==
    IF active THEN (IF PBL_COLOR THEN "GColorRed" ELSE configured)
    ELSE configured

(***************************************************************************)
(* The system's AppTimer service.                                          *)
(***************************************************************************)
TimerIds(ts) == {t.id : t \in ts}

\* The handle app_timer_register hands out: one that no pending timer has.
FreshTimerId(ts) == CHOOSE i \in 1 .. (Cardinality(ts) + 1) : i \notin TimerIds(ts)

app_timer_cancel(ts, handle) == {t \in ts : t.id # handle}

app_timer_register(ts, id, timeout_sec) ==
    ts \cup {[id |-> id, deadline |-> now + timeout_sec]}

(***************************************************************************)
(* What a call leaves in the alert's part of the state: the flag, the      *)
(* handle, the pending timers, the window colour, the vibration count and  *)
(* the stale-cancel mark.                                                  *)
(***************************************************************************)
AlertState == [active     |-> s_hr_alert_active,
               timer      |-> s_hr_alert_timer,
               timers     |-> timers,
               background |-> window_background,
               vibes      |-> vibes,
               stale      |-> staleCancel]

\* prv_set_hr_alert_active registering a timer only when the alert was not
\* active before: a re-trigger cancels the pending one and arms none.
SetActiveArmsOnEntryOnly(a, active, registered) ==
    LET hadTimer  == a.timer # NULL
        cancelled == IF hadTimer THEN app_timer_cancel(a.timers, a.timer) ELSE a.timers
        id        == FreshTimerId(cancelled)
        arm       == active /\ registered /\ ~a.active
    IN  [a EXCEPT
           !.active     = active,
           !.background = BackgroundFor(active, settings_BackgroundColor),
           !.stale      = a.stale \/ (hadTimer /\ a.timer \notin TimerIds(a.timers)),
           !.timer      = IF arm THEN id ELSE NULL,
           !.timers     = IF arm
                          THEN app_timer_register(cancelled, id, HR_ALERT_WINDOW_SEC)
                          ELSE cancelled]

\* prv_set_hr_alert_active arming the timer for the wrong constant.
SetActiveWrongTimeout(a, active, registered) ==
    LET hadTimer  == a.timer # NULL
        cancelled == IF hadTimer THEN app_timer_cancel(a.timers, a.timer) ELSE a.timers
        id        == FreshTimerId(cancelled)
    IN  [a EXCEPT
           !.active     = active,
           !.background = BackgroundFor(active, settings_BackgroundColor),
           !.stale      = a.stale \/ (hadTimer /\ a.timer \notin TimerIds(a.timers)),
           !.timer      = IF active /\ registered THEN id ELSE NULL,
           !.timers     = IF active /\ registered
                          THEN app_timer_register(cancelled, id, HR_ALERT_DELTA_BPM)
                          ELSE cancelled]

\* prv_set_hr_alert_active without the cancel of the pending timer.
SetActiveNoCancel(a, active, registered) ==
    LET id == FreshTimerId(a.timers)
    IN  [a EXCEPT
           !.active     = active,
           !.background = BackgroundFor(active, settings_BackgroundColor),
           !.timer      = IF active /\ registered THEN id ELSE NULL,
           !.timers     = IF active /\ registered
                          THEN app_timer_register(a.timers, id, HR_ALERT_WINDOW_SEC)
                          ELSE a.timers]

(***************************************************************************)
(* prv_set_hr_alert_active.  registered: whether app_timer_register        *)
(* returns a timer (NULL otherwise).                                       *)
(***************************************************************************)
prv_set_hr_alert_active(a, active, registered) ==
    LET hadTimer  == a.timer # NULL
        cancelled == IF hadTimer THEN app_timer_cancel(a.timers, a.timer) ELSE a.timers
        id        == FreshTimerId(cancelled)
    IN  [a EXCEPT
           !.active     = active,
           !.background = BackgroundFor(active, settings_BackgroundColor),
           !.stale      = a.stale \/ (hadTimer /\ a.timer \notin TimerIds(a.timers)),
           !.timer      = IF active /\ registered THEN id ELSE NULL,
           !.timers     = IF active /\ registered
                          THEN app_timer_register(cancelled, id, HR_ALERT_WINDOW_SEC)
                          ELSE cancelled]

\* prv_evaluate_hr_alert without the "if (!s_hr_alert_active)" around the pulse.
EvaluateAlwaysVibrates(a, delta_bpm, registered) ==
    IF delta_bpm < HR_ALERT_DELTA_BPM
    THEN a
    ELSE prv_set_hr_alert_active([a EXCEPT !.vibes = a.vibes + 1], TRUE, registered)

\* prv_evaluate_hr_alert with "<=" for "<" in the threshold test.
EvaluateStrictThreshold(a, delta_bpm, registered) ==
    IF delta_bpm <= HR_ALERT_DELTA_BPM
    THEN a
    ELSE prv_set_hr_alert_active(
            [a EXCEPT !.vibes = IF ~a.active THEN a.vibes + 1 ELSE a.vibes],
            TRUE, registered)

\* prv_evaluate_hr_alert: vibes_short_pulse counts in vibes.
prv_evaluate_hr_alert(a, delta_bpm, registered) ==
    IF delta_bpm < HR_ALERT_DELTA_BPM
    THEN a
    ELSE prv_set_hr_alert_active(
            [a EXCEPT !.vibes = IF ~a.active THEN a.vibes + 1 ELSE a.vibes],
            TRUE, registered)

\* The last HR_SAMPLE_BUFFER_SIZE entries of a sequence.
Latest(seq) ==
    IF Len(seq) <= HR_SAMPLE_BUFFER_SIZE THEN seq
    ELSE SubSeq(seq, Len(seq) - HR_SAMPLE_BUFFER_SIZE + 1, Len(seq))

(***************************************************************************)
(* The statics as the loader leaves them (zero) and the window as          *)
(* main_window_load leaves it: "-- BPM" shown, the configured colour set.  *)
(* init() then runs prv_handle_heart_rate_update once (main.c:576); that   *)
(* run is the first HeartRateUpdate step.  settings.BackgroundColor is     *)
(* whatever prv_load_settings read.                                        *)
(***************************************************************************)
Init ==
    /\ now = 0
    /\ running = TRUE
    /\ s_hr_alert_timer = NULL
    /\ s_hr_alert_active = FALSE
    /\ s_hr_sample_values = [i \in Indices |-> 0]
    /\ s_hr_sample_times = [i \in Indices |-> 0]
    /\ s_hr_sample_count = 0
    /\ s_last_filtered_hr = 0
    /\ s_last_raw_hr = 0
    /\ s_last_window_delta = 0
    /\ s_hr_buffer = "-- BPM"
    /\ settings_BackgroundColor \in Colors
    /\ window_background = settings_BackgroundColor
    /\ timers = {}
    /\ vibes = 0
    /\ oob = FALSE
    /\ staleCancel = FALSE
    /\ recorded = <<>>

\* prv_handle_heart_rate_update recomputing the spread only while the alert
\* is not active.
UpdateKeepsSpreadWhileAlerting(fAccessible, fPeek, rAccessible, rPeek, registered) ==
    /\ running
    /\ now <= MaxTime
    /\ LET filtered == prv_get_heart_rate_metric(fAccessible, fPeek)
           raw      == prv_get_heart_rate_metric(rAccessible, rPeek)
           w        == IF raw > 0 THEN prv_store_raw_hr_sample(Window, raw, now)
                                  ELSE Window
           delta    == IF raw > 0 /\ ~s_hr_alert_active
                       THEN prv_calculate_window_delta_bpm(w)
                       ELSE s_last_window_delta
           a        == IF raw > 0
                       THEN prv_evaluate_hr_alert(AlertState, delta, registered)
                       ELSE AlertState
       IN  /\ s_last_filtered_hr' = filtered
           /\ s_last_raw_hr' = raw
           /\ s_hr_sample_times' = w.times
           /\ s_hr_sample_values' = w.values
           /\ s_hr_sample_count' = w.count
           /\ oob' = w.oob
           /\ s_last_window_delta' = delta
           /\ s_hr_alert_active' = a.active
           /\ s_hr_alert_timer' = a.timer
           /\ timers' = a.timers
           /\ staleCancel' = a.stale
           /\ vibes' = a.vibes
           /\ window_background' = a.background
           /\ s_hr_buffer' = HrText(filtered, delta)
           /\ recorded' = IF raw > 0 THEN Latest(Append(recorded, <<now, raw>>))
                                     ELSE recorded
    /\ UNCHANGED <<now, running, settings_BackgroundColor>>

\* prv_handle_heart_rate_update feeding the filtered reading to the window
\* when there is one, the raw reading otherwise.
UpdateStoresFiltered(fAccessible, fPeek, rAccessible, rPeek, registered) ==
    /\ running
    /\ now <= MaxTime
    /\ LET filtered == prv_get_heart_rate_metric(fAccessible, fPeek)
           raw      == prv_get_heart_rate_metric(rAccessible, rPeek)
           sample   == IF filtered > 0 THEN filtered ELSE raw
           w        == IF raw > 0 THEN prv_store_raw_hr_sample(Window, sample, now)
                                  ELSE Window
           delta    == IF raw > 0 THEN prv_calculate_window_delta_bpm(w)
                                  ELSE s_last_window_delta
           a        == IF raw > 0
                       THEN prv_evaluate_hr_alert(AlertState, delta, registered)
                       ELSE AlertState
       IN  /\ s_last_filtered_hr' = filtered
           /\ s_last_raw_hr' = raw
           /\ s_hr_sample_times' = w.times
           /\ s_hr_sample_values' = w.values
           /\ s_hr_sample_count' = w.count
           /\ oob' = w.oob
           /\ s_last_window_delta' = delta
           /\ s_hr_alert_active' = a.active
           /\ s_hr_alert_timer' = a.timer
           /\ timers' = a.timers
           /\ staleCancel' = a.stale
           /\ vibes' = a.vibes
           /\ window_background' = a.background
           /\ s_hr_buffer' = HrText(filtered, delta)
           /\ recorded' = IF raw > 0 THEN Latest(Append(recorded, <<now, raw>>))
                                     ELSE recorded
    /\ UNCHANGED <<now, running, settings_BackgroundColor>>

\* prv_handle_heart_rate_update calling prv_calculate_window_delta_bpm before
\* prv_store_raw_hr_sample: the spread is that of the window found.
UpdateSpreadBeforeStore(fAccessible, fPeek, rAccessible, rPeek, registered) ==
    /\ running
    /\ now <= MaxTime
    /\ LET filtered == prv_get_heart_rate_metric(fAccessible, fPeek)
           raw      == prv_get_heart_rate_metric(rAccessible, rPeek)
           w        == IF raw > 0 THEN prv_store_raw_hr_sample(Window, raw, now)
                                  ELSE Window
           delta    == IF raw > 0 THEN prv_calculate_window_delta_bpm(Window)
                                  ELSE s_last_window_delta
           a        == IF raw > 0
                       THEN prv_evaluate_hr_alert(AlertState, delta, registered)
                       ELSE AlertState
       IN  /\ s_last_filtered_hr' = filtered
           /\ s_last_raw_hr' = raw
           /\ s_hr_sample_times' = w.times
           /\ s_hr_sample_values' = w.values
           /\ s_hr_sample_count' = w.count
           /\ oob' = w.oob
           /\ s_last_window_delta' = delta
           /\ s_hr_alert_active' = a.active
           /\ s_hr_alert_timer' = a.timer
           /\ timers' = a.timers
           /\ staleCancel' = a.stale
           /\ vibes' = a.vibes
           /\ window_background' = a.background
           /\ s_hr_buffer' = HrText(filtered, delta)
           /\ recorded' = IF raw > 0 THEN Latest(Append(recorded, <<now, raw>>))
                                     ELSE recorded
    /\ UNCHANGED <<now, running, settings_BackgroundColor>>

\* prv_handle_heart_rate_update pruning on every tick, raw reading or not.
UpdatePrunesWithoutSample(fAccessible, fPeek, rAccessible, rPeek, registered) ==
    /\ running
    /\ now <= MaxTime
    /\ LET filtered == prv_get_heart_rate_metric(fAccessible, fPeek)
           raw      == prv_get_heart_rate_metric(rAccessible, rPeek)
           w        == IF raw > 0 THEN prv_store_raw_hr_sample(Window, raw, now)
                                  ELSE prv_prune_old_hr_samples(Window, now)
           delta    == IF raw > 0 THEN prv_calculate_window_delta_bpm(w)
                                  ELSE s_last_window_delta
           a        == IF raw > 0
                       THEN prv_evaluate_hr_alert(AlertState, delta, registered)
                       ELSE AlertState
       IN  /\ s_last_filtered_hr' = filtered
           /\ s_last_raw_hr' = raw
           /\ s_hr_sample_times' = w.times
           /\ s_hr_sample_values' = w.values
           /\ s_hr_sample_count' = w.count
           /\ oob' = w.oob
           /\ s_last_window_delta' = delta
           /\ s_hr_alert_active' = a.active
           /\ s_hr_alert_timer' = a.timer
           /\ timers' = a.timers
           /\ staleCancel' = a.stale
           /\ vibes' = a.vibes
           /\ window_background' = a.background
           /\ s_hr_buffer' = HrText(filtered, delta)
           /\ recorded' = IF raw > 0 THEN Latest(Append(recorded, <<now, raw>>))
                                     ELSE recorded
    /\ UNCHANGED <<now, running, settings_BackgroundColor>>

(***************************************************************************)
(* prv_handle_heart_rate_update, run by health_handler on every            *)
(* HealthEventHeartRateUpdate (and once by init).                          *)
(***************************************************************************)
HeartRateUpdate(fAccessible, fPeek, rAccessible, rPeek, registered) ==
    /\ running
    /\ now <= MaxTime
    /\ LET filtered == prv_get_heart_rate_metric(fAccessible, fPeek)
           raw      == prv_get_heart_rate_metric(rAccessible, rPeek)
           w        == IF raw > 0 THEN prv_store_raw_hr_sample(Window, raw, now)
                                  ELSE Window
           delta    == IF raw > 0 THEN prv_calculate_window_delta_bpm(w)
                                  ELSE s_last_window_delta
           a        == IF raw > 0
                       THEN prv_evaluate_hr_alert(AlertState, delta, registered)
                       ELSE AlertState
       IN  /\ s_last_filtered_hr' = filtered
           /\ s_last_raw_hr' = raw
           /\ s_hr_sample_times' = w.times
           /\ s_hr_sample_values' = w.values
           /\ s_hr_sample_count' = w.count
           /\ oob' = w.oob
           /\ s_last_window_delta' = delta
           /\ s_hr_alert_active' = a.active
           /\ s_hr_alert_timer' = a.timer
           /\ timers' = a.timers
           /\ staleCancel' = a.stale
           /\ vibes' = a.vibes
           /\ window_background' = a.background
           /\ s_hr_buffer' = HrText(filtered, delta)
           /\ recorded' = IF raw > 0 THEN Latest(Append(recorded, <<now, raw>>))
                                     ELSE recorded
    /\ UNCHANGED <<now, running, settings_BackgroundColor>>

\* hr_alert_timer_callback without "s_hr_alert_active = false".
TimerFireKeepsAlert ==
    /\ running
    /\ \E t \in timers :
          /\ t.deadline = now
          /\ timers' = timers \ {t}
    /\ s_hr_alert_timer' = NULL
    /\ window_background' = BackgroundFor(s_hr_alert_active, settings_BackgroundColor)
    /\ UNCHANGED <<now, running, s_hr_alert_active, s_hr_sample_values,
                   s_hr_sample_times, s_hr_sample_count, s_last_filtered_hr,
                   s_last_raw_hr, s_last_window_delta, s_hr_buffer,
                   settings_BackgroundColor, vibes, oob, staleCancel, recorded>>

\* hr_alert_timer_callback looking at the stored spread first: while it is
\* still >= HR_ALERT_DELTA_BPM the alert stays, with a new timer.
TimerFireReevaluates ==
    /\ running
    /\ \E t \in timers :
          /\ t.deadline = now
          /\ IF s_last_window_delta >= HR_ALERT_DELTA_BPM
             THEN /\ timers' = app_timer_register(timers \ {t}, t.id, HR_ALERT_WINDOW_SEC)
                  /\ s_hr_alert_timer' = t.id
                  /\ s_hr_alert_active' = TRUE
             ELSE /\ timers' = timers \ {t}
                  /\ s_hr_alert_timer' = NULL
                  /\ s_hr_alert_active' = FALSE
    /\ window_background' = BackgroundFor(s_hr_alert_active', settings_BackgroundColor)
    /\ UNCHANGED <<now, running, s_hr_sample_values, s_hr_sample_times,
                   s_hr_sample_count, s_last_filtered_hr, s_last_raw_hr,
                   s_last_window_delta, s_hr_buffer, settings_BackgroundColor,
                   vibes, oob, staleCancel, recorded>>

\* hr_alert_timer_callback without "s_hr_alert_timer = NULL".
TimerFireKeepsHandle ==
    /\ running
    /\ \E t \in timers :
          /\ t.deadline = now
          /\ timers' = timers \ {t}
    /\ s_hr_alert_active' = FALSE
    /\ window_background' = BackgroundFor(FALSE, settings_BackgroundColor)
    /\ UNCHANGED <<now, running, s_hr_alert_timer, s_hr_sample_values,
                   s_hr_sample_times, s_hr_sample_count, s_last_filtered_hr,
                   s_last_raw_hr, s_last_window_delta, s_hr_buffer,
                   settings_BackgroundColor, vibes, oob, staleCancel, recorded>>

\* hr_alert_timer_callback, run by the system when a pending timer expires.
TimerFire ==
    /\ running
    /\ \E t \in timers :
          /\ t.deadline = now
          /\ timers' = timers \ {t}
    /\ s_hr_alert_timer' = NULL
    /\ s_hr_alert_active' = FALSE
    /\ window_background' = BackgroundFor(FALSE, settings_BackgroundColor)
    /\ UNCHANGED <<now, running, s_hr_sample_values, s_hr_sample_times,
                   s_hr_sample_count, s_last_filtered_hr, s_last_raw_hr,
                   s_last_window_delta, s_hr_buffer, settings_BackgroundColor,
                   vibes, oob, staleCancel, recorded>>

\* The clock moves on, but not past the expiry of a pending timer.
NextDeadline(t) ==
    IF \E p \in timers : p.deadline < t
    THEN CHOOSE d \in {p.deadline : p \in timers} :
            \A p \in timers : d <= p.deadline
    ELSE t

Advance(dt) ==
    /\ running
    /\ \A p \in timers : p.deadline > now
    /\ now + dt <= MaxTime \/ timers # {}
    /\ now' = NextDeadline(now + dt)
    /\ UNCHANGED <<running, s_hr_alert_timer, s_hr_alert_active, s_hr_sample_values,
                   s_hr_sample_times, s_hr_sample_count, s_last_filtered_hr,
                   s_last_raw_hr, s_last_window_delta, s_hr_buffer,
                   settings_BackgroundColor, window_background, timers, vibes,
                   oob, staleCancel, recorded>>

\* inbox_received_callback giving the window the new colour itself, not
\* through prv_update_display.
SettingsRepaints(color) ==
    /\ running
    /\ settings_BackgroundColor' = color
    /\ window_background' = color
    /\ UNCHANGED <<now, running, s_hr_alert_timer, s_hr_alert_active,
                   s_hr_sample_values, s_hr_sample_times, s_hr_sample_count,
                   s_last_filtered_hr, s_last_raw_hr, s_last_window_delta,
                   s_hr_buffer, timers, vibes, oob, staleCancel, recorded>>

\* inbox_received_callback with a BackgroundColor tuple.
SettingsReceived(color) ==
    /\ running
    /\ settings_BackgroundColor' = color
    /\ window_background' = BackgroundFor(s_hr_alert_active, color)
    /\ UNCHANGED <<now, running, s_hr_alert_timer, s_hr_alert_active,
                   s_hr_sample_values, s_hr_sample_times, s_hr_sample_count,
                   s_last_filtered_hr, s_last_raw_hr, s_last_window_delta,
                   s_hr_buffer, timers, vibes, oob, staleCancel, recorded>>

\* deinit, after app_event_loop returns.
Deinit ==
    /\ running
    /\ running' = FALSE
    /\ s_hr_alert_timer' = NULL
    /\ timers' = IF s_hr_alert_timer # NULL
                 THEN app_timer_cancel(timers, s_hr_alert_timer) ELSE timers
    /\ staleCancel' = (staleCancel \/
                        (s_hr_alert_timer # NULL
                           /\ s_hr_alert_timer \notin TimerIds(timers)))
    /\ UNCHANGED <<now, s_hr_alert_active, s_hr_sample_values, s_hr_sample_times,
                   s_hr_sample_count, s_last_filtered_hr, s_last_raw_hr,
                   s_last_window_delta, s_hr_buffer, settings_BackgroundColor,
                   window_background, vibes, oob, recorded>>

Tick(registered) ==
    \E f \in FilteredReadings, r \in RawReadings :
        HeartRateUpdate(f.accessible, f.peek, r.accessible, r.peek, registered)

Next ==
    \/ Tick(TRUE)
    \/ TimerFire
    \/ \E dt \in ClockSteps : Advance(dt)
    \/ \E color \in Colors : SettingsReceived(color)
    \/ Deinit

Spec == Init /\ [][Next]_vars

(***************************************************************************)
(* The same program on a system whose timer service may be exhausted:      *)
(* app_timer_register may return NULL.                                     *)
(***************************************************************************)
NextExhausted ==
    \/ Next
    \/ Tick(FALSE)

SpecExhausted == Init /\ [][NextExhausted]_vars

(***************************************************************************)
(* The program with the scheduling the system gives it: time passes and a  *)
(* pending timer that has expired is called back.                          *)
(***************************************************************************)
SpecLive ==
    /\ Spec
    /\ WF_vars(TimerFire)
    /\ WF_vars(\E dt \in ClockSteps : Advance(dt))

(***************************************************************************)
(* The engine alone with the default settings, on a sensor that delivers   *)
(* at most one heart-rate event per 10 s, each with a raw reading of 80,   *)
(* 95 or 110 BPM and a filtered reading of 72.                             *)
(***************************************************************************)
ScenarioReadings == {Reading(TRUE, 80), Reading(TRUE, 95), Reading(TRUE, 110)}
ScenarioSteps == {10}

InitDefault == Init /\ settings_BackgroundColor = "GColorBlack"

TickScenario ==
    /\ s_hr_sample_count > 0 => s_hr_sample_times[s_hr_sample_count - 1] < now
    /\ \E r \in ScenarioReadings :
          HeartRateUpdate(TRUE, 72, r.accessible, r.peek, TRUE)

NextScenario ==
    \/ TickScenario
    \/ TimerFire
    \/ \E dt \in ScenarioSteps : Advance(dt)

SpecScenario == InitDefault /\ [][NextScenario]_vars

(***************************************************************************)
(* Vocabulary of the properties.                                           *)
(***************************************************************************)
\* A step that is one run of prv_handle_heart_rate_update.
AnyTick == \E registered \in BOOLEAN : Tick(registered)
\* ... in which a raw reading was available, so a spread was computed.
RawTick == AnyTick /\ s_last_raw_hr' > 0
\* ... and that spread met the threshold.
QualifyingTick == RawTick /\ s_last_window_delta' >= HR_ALERT_DELTA_BPM
\* The sustain timer the handle names is pending and expires at d.
ArmedFor(d) == \E t \in timers : t.id = s_hr_alert_timer /\ t.deadline = d
ArmedFor_(d) == \E t \in timers' : t.id = s_hr_alert_timer' /\ t.deadline = d
\* The retained samples, oldest first, as <<time, value>> pairs.
Retained == [i \in 1 .. s_hr_sample_count |->
                <<s_hr_sample_times[i - 1], s_hr_sample_values[i - 1]>>]
Retained_ == [i \in 1 .. s_hr_sample_count' |->
                <<s_hr_sample_times'[i - 1], s_hr_sample_values'[i - 1]>>]

\* C1: vibes_short_pulse is called exactly by a tick that finds the alert
\* inactive and computes a spread >= HR_ALERT_DELTA_BPM, and that tick enters
\* the alert; no other step, in particular no qualifying tick that finds the
\* alert active, calls it.
C1_VibrationOnEdgeOnly ==
    [][ IF QualifyingTick /\ ~s_hr_alert_active
        THEN vibes' = vibes + 1 /\ s_hr_alert_active'
        ELSE vibes' = vibes ]_vars

\* Three samples 70, 100, x recorded with the alert entered at the second: the
\* third tick qualified with the alert active, and one pulse was given.
C1_Witness ==
    /\ vibes = 1 /\ s_hr_alert_active /\ now = 0
    /\ s_hr_sample_count = 3
    /\ s_hr_sample_values[0] = 70 /\ s_hr_sample_values[1] = 100

\* C2: entering the alert at t0 arms the timer for t0 + HR_ALERT_WINDOW_SEC;
\* while the alert is active a step that is no qualifying tick either leaves
\* flag and timer alone or is the expiry at exactly that time; and the alert
\* is never active past that time.
C2_AutoClearAtDeadline ==
    /\ [](running /\ s_hr_alert_active =>
            \E t \in timers : t.id = s_hr_alert_timer /\ now <= t.deadline)
    /\ [][ /\ (~s_hr_alert_active /\ s_hr_alert_active')
                => ArmedFor_(now + HR_ALERT_WINDOW_SEC)
           /\ (running' /\ s_hr_alert_active /\ ~QualifyingTick)
                => \/ /\ s_hr_alert_active'
                      /\ timers' = timers
                      /\ s_hr_alert_timer' = s_hr_alert_timer
                   \/ /\ ~s_hr_alert_active'
                      /\ ArmedFor(now)
                      /\ now' = now ]_vars

\* The alert entered at 30 (70@0, 100@30), no sample since, cleared at 90.
C2_Witness ==
    /\ running /\ ~s_hr_alert_active /\ vibes = 1 /\ now = 90
    /\ s_hr_sample_count = 2
    /\ s_hr_sample_times[0] = 0 /\ s_hr_sample_times[1] = 30
    /\ s_hr_sample_values[0] = 70 /\ s_hr_sample_values[1] = 100

\* C3: a qualifying tick that finds the alert active leaves it active, gives
\* no pulse, and leaves exactly one timer pending: a fresh one that expires
\* HR_ALERT_WINDOW_SEC after this tick, the earlier one being cancelled.
C3_RetriggerRearms ==
    [][ (QualifyingTick /\ s_hr_alert_active)
          => /\ s_hr_alert_active'
             /\ vibes' = vibes
             /\ s_hr_alert_timer' # NULL
             /\ timers' = {[id |-> s_hr_alert_timer',
                            deadline |-> now + HR_ALERT_WINDOW_SEC]} ]_vars

\* Entered at 0 (70@0, 100@0), qualifying tick at 30, cleared at 90 = 30 + 60
\* with one pulse in all.
C3_Witness ==
    /\ running /\ ~s_hr_alert_active /\ vibes = 1 /\ now = 90
    /\ s_hr_sample_count = 3
    /\ s_hr_sample_times[0] = 0 /\ s_hr_sample_times[1] = 0
    /\ s_hr_sample_times[2] = 30
    /\ s_hr_sample_values[0] = 70 /\ s_hr_sample_values[1] = 100

C5_NoAlertWithoutTimer ==
    (running /\ s_hr_alert_active) =>
        \E t \in timers : t.id = s_hr_alert_timer

C7_ClearsWithoutInput ==
    /\ [][ /\ (AnyTick /\ s_last_raw_hr' = 0)
                => UNCHANGED <<s_hr_alert_active, s_hr_alert_timer, timers>>
           /\ (s_hr_alert_active /\ ~s_hr_alert_active') => TimerFire ]_vars
    /\ (<>[][~RawTick]_vars) => <>[](~running \/ ~s_hr_alert_active)

\* The alert was entered at 0, the next tick at 30 had no raw reading, and
\* the alert has been cleared at 60.
C7_Witness ==
    /\ running /\ ~s_hr_alert_active /\ vibes = 1 /\ now = 60
    /\ s_last_raw_hr = 0
    /\ s_hr_sample_count = 2 /\ s_hr_sample_times[1] = 0

\* C8: 0 <= s_hr_sample_count <= HR_SAMPLE_BUFFER_SIZE and no array access
\* leaves the arrays; a tick that records into a window still full after
\* pruning drops exactly the oldest sample and appends the new one last.
C8_CountAndIndexInRange ==
    /\ [](s_hr_sample_count \in 0 .. HR_SAMPLE_BUFFER_SIZE /\ ~oob)
    /\ [][ ( /\ RawTick
             /\ s_hr_sample_count = HR_SAMPLE_BUFFER_SIZE
             /\ now - s_hr_sample_times[0] <= HR_ALERT_WINDOW_SEC )
          => Retained_ = Append(Tail(Retained), <<now, s_last_raw_hr'>>) ]_vars

\* The window is full of samples of one value at time 0, yet a spread >= 30
\* was seen at time 0: the sample that made it has been evicted.
C8_Witness ==
    /\ now = 0 /\ s_hr_sample_count = HR_SAMPLE_BUFFER_SIZE
    /\ vibes = 1 /\ s_last_window_delta = 0 /\ s_last_raw_hr > 0

\* C9: once HR_SAMPLE_BUFFER_SIZE or more samples have been recorded and the
\* latest HR_SAMPLE_BUFFER_SIZE of them lie within HR_ALERT_WINDOW_SEC of the
\* last one, the window holds exactly those, in arrival order, each with the
\* time and value it was recorded with.
C9_KeepsLatestSamples ==
    ( /\ Len(recorded) = HR_SAMPLE_BUFFER_SIZE
      /\ \A i \in 1 .. Len(recorded) :
            recorded[Len(recorded)][1] - recorded[i][1] <= HR_ALERT_WINDOW_SEC )
    => Retained = recorded

\* More samples than the buffer holds were recorded within 30 s: the window
\* is full of 100s, and the 70 that raised the alert has left it.
C9_Witness ==
    /\ now = 30 /\ vibes = 1
    /\ Len(recorded) = HR_SAMPLE_BUFFER_SIZE /\ recorded[1][1] = 0
    /\ \A i \in 1 .. Len(recorded) : recorded[i][2] = 100
    /\ Retained = recorded

\* C10: after a tick records a sample at time t, no retained sample is older
\* than HR_ALERT_WINDOW_SEC; the samples older than that are all removed,
\* and pruning removes no other: what stays of the earlier window is its
\* samples of age <= HR_ALERT_WINDOW_SEC (less the oldest, when they fill the
\* buffer), in their order.
Fresh == SelectSeq(Retained, LAMBDA smp : now - smp[1] <= HR_ALERT_WINDOW_SEC)

C10_PruneOlderThanWindow ==
    [][ RawTick =>
          /\ \A i \in 1 .. Len(Retained_) :
                Retained_[i][1] >= now - HR_ALERT_WINDOW_SEC
          /\ Retained_ =
                Append(IF Len(Fresh) >= HR_SAMPLE_BUFFER_SIZE THEN Tail(Fresh) ELSE Fresh,
                       <<now, s_last_raw_hr'>>) ]_vars

\* 70@0, 100@30, then 100@90: the sample of age 90 is gone, the one of age
\* exactly 60 is kept.
C10_Witness ==
    /\ now = 90 /\ vibes = 1 /\ s_hr_sample_count = 2
    /\ s_hr_sample_times[0] = 30 /\ s_hr_sample_times[1] = 90
    /\ s_last_window_delta = 0

\* The values of the retained samples, and the largest and smallest of a set.
RetainedValues == {s_hr_sample_values[i] : i \in 0 .. (s_hr_sample_count - 1)}
Largest(S) == CHOOSE m \in S : \A x \in S : x <= m
Smallest(S) == CHOOSE m \in S : \A x \in S : m <= x

\* C11: for every reachable window, prv_calculate_window_delta_bpm returns
\* max - min of the values of exactly the retained samples, 0 when fewer than
\* 2 are retained or all are equal, and never a wrapped negative.
C11_SpreadIsMaxMinusMin ==
    LET d == prv_calculate_window_delta_bpm(Window)
    IN  /\ s_hr_sample_count < 2 => d = 0
        /\ s_hr_sample_count >= 2 =>
              /\ d = Largest(RetainedValues) - Smallest(RetainedValues)
              /\ (Cardinality(RetainedValues) = 1 => d = 0)
        /\ d >= 0
        /\ RetainedValues # {} => d < Largest(RetainedValues)

\* A full window 99, 100, 70 whose smallest value is the newest: spread 30.
C11_Witness ==
    /\ s_hr_sample_count = 3
    /\ s_hr_sample_values[0] = 99 /\ s_hr_sample_values[1] = 100
    /\ s_hr_sample_values[2] = 70
    /\ s_last_window_delta = 30

\* C12: every retained value is > 0; prv_store_raw_hr_sample given a value
\* <= 0 returns the window as it was (no prune, no eviction, no append); and
\* a tick whose raw reading is unavailable or <= 0 leaves count, times and
\* values alone.
C12_OnlyPositiveStored ==
    /\ [](\A i \in 0 .. (s_hr_sample_count - 1) : s_hr_sample_values[i] > 0)
    /\ [](\A v \in {-1, 0} : prv_store_raw_hr_sample(Window, v, now) = Window)
    /\ [][ (AnyTick /\ s_last_raw_hr' <= 0)
             => UNCHANGED <<s_hr_sample_count, s_hr_sample_times,
                            s_hr_sample_values>> ]_vars

\* One sample is retained and the latest tick, at the same second, had no
\* positive raw reading but a filtered one.
C12_Witness ==
    /\ now = 0 /\ s_hr_sample_count = 1 /\ s_hr_sample_values[0] = 99
    /\ s_last_raw_hr = 0 /\ s_last_filtered_hr = 72

\* The decimal digits of a natural number, most significant first.
Digit(d) ==
    CASE d = 0 -> "0" [] d = 1 -> "1" [] d = 2 -> "2" [] d = 3 -> "3"
      [] d = 4 -> "4" [] d = 5 -> "5" [] d = 6 -> "6" [] d = 7 -> "7"
      [] d = 8 -> "8" [] d = 9 -> "9"
RECURSIVE Decimal(_)
Decimal(n) == IF n < 10 THEN Digit(n) ELSE Decimal(n \div 10) \o Digit(n % 10)

\* C13: the text shown is "<filtered> BPM | Δ<spread>" of the stored filtered
\* value and spread when the filtered value is > 0 and "-- BPM" otherwise, a
\* function of those two values alone; 72 and 5 give "72 BPM | Δ5", and a
\* filtered value <= 0 gives "-- BPM" whatever the spread.
C13_DisplayText ==
    /\ s_hr_buffer =
          IF s_last_filtered_hr > 0
          THEN Decimal(s_last_filtered_hr) \o " BPM | Δ" \o Decimal(s_last_window_delta)
          ELSE "-- BPM"
    /\ HrText(72, 5) = "72 BPM | Δ5"
    /\ \A f \in {-1, 0}, d \in {0, 5, 30} : HrText(f, d) = "-- BPM"

\* A filtered value of 72 and a spread of 29 are shown.
C13_Witness ==
    /\ s_hr_buffer = "72 BPM | Δ29"
    /\ s_last_filtered_hr = 72 /\ s_last_window_delta = 29

C15_OldestFirst ==
    /\ \A i, j \in 0 .. (s_hr_sample_count - 1) :
          i < j => s_hr_sample_times[i] <= s_hr_sample_times[j]
    /\ s_hr_sample_count > 0 =>
          /\ recorded # <<>>
          /\ Retained[s_hr_sample_count] = recorded[Len(recorded)]
    /\ \A i \in 0 .. (s_hr_sample_count - 1) : s_hr_sample_times[i] <= now

\* Samples of three different seconds, after a prune: 30, 60 and 90 are
\* retained in that order, the one of second 0 is gone.
C15_Witness ==
    /\ s_hr_sample_count = 3 /\ vibes = 1 /\ s_last_window_delta = 0
    /\ s_hr_sample_times[0] = 30 /\ s_hr_sample_times[1] = 60
    /\ s_hr_sample_times[2] = 90

\* C16: the expiry callback clears the alert whatever the stored spread is
\* and leaves the window and the stored spread alone; a tick with a raw
\* reading and a spread >= HR_ALERT_DELTA_BPM that finds the alert cleared
\* enters it again with a new pulse.
C16_ExpiryIsPureTimeout ==
    [][ /\ TimerFire =>
              /\ ~s_hr_alert_active'
              /\ s_hr_alert_timer' = NULL
              /\ UNCHANGED <<s_hr_sample_count, s_hr_sample_times,
                             s_hr_sample_values, s_last_window_delta>>
        /\ (QualifyingTick /\ ~s_hr_alert_active /\ vibes > 0) =>
              /\ s_hr_alert_active'
              /\ vibes' = vibes + 1
              /\ ArmedFor_(now + HR_ALERT_WINDOW_SEC) ]_vars

\* The alert of second 0 expired at 60 over a stored spread of 30; the tick
\* at 60 found the old samples still retained and entered it again.
C16_Witness ==
    /\ running /\ s_hr_alert_active /\ vibes = 2 /\ now = 60
    /\ s_hr_sample_count = 3 /\ s_hr_sample_times[0] = 0
    /\ s_hr_sample_times[2] = 60 /\ s_last_window_delta = 30

\* C17: a tick whose raw reading is unavailable or <= 0 leaves the window
\* (count, times, values), the stored spread, the alert flag, the handle and
\* the pending timers as they were, however old the samples are; the window
\* changes in no step but a tick that records a sample.
C17_NoRawNoChange ==
    [][ /\ (AnyTick /\ s_last_raw_hr' = 0) =>
              UNCHANGED <<s_hr_sample_count, s_hr_sample_times, s_hr_sample_values,
                          s_last_window_delta, s_hr_alert_active, s_hr_alert_timer,
                          timers, vibes>>
        /\ (<<s_hr_sample_count, s_hr_sample_times, s_hr_sample_values>>'
              # <<s_hr_sample_count, s_hr_sample_times, s_hr_sample_values>>)
             => RawTick ]_vars

\* At second 90 the samples of second 0 are still retained, 90 s old, with
\* their spread of 30 stored; the latest tick had no raw reading.
C17_Witness ==
    /\ running /\ now = 90 /\ s_last_raw_hr = 0 /\ s_last_filtered_hr = 72
    /\ s_hr_sample_count = 2 /\ s_hr_sample_times[0] = 0
    /\ s_hr_sample_times[1] = 0 /\ s_last_window_delta = 30

\* The samples of the scenario: 80 at t0 = 0, 95 at 10, 110 at 20.
ScenarioSamples == <<<<0, 80>>, <<10, 95>>, <<20, 110>>>>
\* The window a tick at "now" must leave: what is not older than the window,
\* less the oldest if that fills the buffer, then the sample of this tick.
KeptThenAppended(raw) ==
    LET room == IF Len(Fresh) >= HR_SAMPLE_BUFFER_SIZE THEN Tail(Fresh) ELSE Fresh
    IN  Append(room, <<now, raw>>)
RetainedValues_ == {Retained_[i][2] : i \in 1 .. Len(Retained_)}

\* C18: a tick with a raw reading prunes, evicts if full, appends, computes
\* the spread, evaluates the alert and renders, in that order: the spread it
\* stores, decides on and shows is max - min of the window it leaves, which
\* holds this tick's sample and none it pruned or evicted.  With 80@0, 95@10
\* and 110@20 recorded the spread is 30, the tick at 20 enters the alert with
\* one pulse, and with no further sample the alert clears at 80.
C18_OrderWithinTick ==
    /\ [][ TickScenario =>
             /\ Retained_ = KeptThenAppended(s_last_raw_hr')
             /\ s_last_window_delta' =
                   Largest(RetainedValues_) - Smallest(RetainedValues_)
             /\ s_hr_alert_active' =
                   (s_hr_alert_active \/ s_last_window_delta' >= HR_ALERT_DELTA_BPM)
             /\ s_last_window_delta' >= HR_ALERT_DELTA_BPM
                   => ArmedFor_(now + HR_ALERT_WINDOW_SEC)
             /\ s_hr_buffer' =
                   "72 BPM | Δ" \o Decimal(s_last_window_delta') ]_vars
    /\ [](Retained = SubSeq(ScenarioSamples, 1, 2) =>
             ~s_hr_alert_active /\ vibes = 0 /\ s_last_window_delta = 15)
    /\ [](Retained = ScenarioSamples =>
             /\ s_last_window_delta = 30 /\ vibes = 1
             /\ now < 80 => s_hr_alert_active /\ ArmedFor(80)
             /\ now = 80 => \/ s_hr_alert_active /\ ArmedFor(80)
                            \/ ~s_hr_alert_active /\ timers = {}
             /\ now > 80 => ~s_hr_alert_active /\ timers = {})

\* The scenario has run: the three samples are retained, no other was
\* recorded, and the alert entered at 20 has been cleared at 80.
C18_Witness ==
    /\ Retained = ScenarioSamples /\ recorded = ScenarioSamples
    /\ now = 80 /\ ~s_hr_alert_active /\ timers = {} /\ vibes = 1
    /\ s_hr_buffer = "72 BPM | Δ30"

\* What the raw reading may reach: window, spread, alert flag, handle,
\* pending timers, pulses.
Engine == <<s_hr_sample_count, s_hr_sample_times, s_hr_sample_values,
            s_last_window_delta, s_hr_alert_active, s_hr_alert_timer, timers,
            vibes>>
\* The primary number of the text shown: what stands before the first space.
RECURSIVE UpToSpace(_, _)
UpToSpace(text, i) ==
    IF i > Len(text) \/ SubSeq(text, i, i) = " " THEN SubSeq(text, 1, i - 1)
    ELSE UpToSpace(text, i + 1)
PrimaryShown == UpToSpace(s_hr_buffer, 1)
\* Engine after a tick, from Engine, the clock and the raw value alone.
EngineAfterTick(raw) ==
    IF raw <= 0 THEN Engine
    ELSE LET w == prv_store_raw_hr_sample(Window, raw, now)
             d == prv_calculate_window_delta_bpm(w)
             a == prv_evaluate_hr_alert(AlertState, d, TRUE)
         IN  <<w.count, w.times, w.values, d, a.active, a.timer, a.timers, a.vibes>>

\* C19: the filtered reading reaches neither window, spread, alert flag,
\* timer nor pulses, and the raw reading does not reach the primary number
\* shown.  Stated per step, for two runs that agree so far: after a tick
\* Engine is a function of Engine before, the clock and the raw reading,
\* whatever the filtered reading of this tick and whatever filtered value or
\* text is stored; the primary number shown after a tick is a function of
\* its filtered reading alone, whatever the raw reading; no other step
\* touches the number, and what it does to Engine follows from Engine and the
\* clock.
C19_NoCrossInfluence ==
    [][ /\ \A f \in FilteredReadings, r \in RawReadings :
              HeartRateUpdate(f.accessible, f.peek, r.accessible, r.peek, TRUE) =>
                 /\ Engine' = EngineAfterTick(IF r.accessible THEN r.peek ELSE 0)
                 /\ PrimaryShown' = IF f.accessible /\ f.peek > 0
                                    THEN Decimal(f.peek) ELSE "--"
        /\ ~AnyTick =>
              /\ UNCHANGED <<s_last_filtered_hr, s_hr_buffer>>
              /\ Engine' = CASE TimerFire ->
                                  <<s_hr_sample_count, s_hr_sample_times,
                                    s_hr_sample_values, s_last_window_delta, FALSE,
                                    NULL, {t \in timers : t.deadline # now}, vibes>>
                             [] Deinit ->
                                  <<s_hr_sample_count, s_hr_sample_times,
                                    s_hr_sample_values, s_last_window_delta,
                                    s_hr_alert_active, NULL, {}, vibes>>
                             [] OTHER -> Engine ]_vars

\* The alert is active with one pulse given on raw readings 70 and 100 while
\* no filtered reading is available and "-- BPM" is shown.
C19_Witness ==
    /\ s_hr_alert_active /\ vibes = 1 /\ s_last_window_delta = 30
    /\ s_last_raw_hr = 100 /\ s_last_filtered_hr = 0 /\ s_hr_buffer = "-- BPM"

\* C20: app_timer_cancel is never given a handle that has fired or was never
\* registered; at most one sustain timer is pending; s_hr_alert_timer is
\* non-null exactly when a timer is pending, and then names it; deinit leaves
\* the handle null and nothing pending, and no handler runs after it, so it
\* cancels at most once.
C20_TimerHandleDiscipline ==
    /\ [](/\ ~staleCancel
          /\ Cardinality(timers) <= 1
          /\ (s_hr_alert_timer # NULL) <=> (timers # {})
          /\ \A t \in timers : t.id = s_hr_alert_timer
          /\ ~running => s_hr_alert_timer = NULL /\ timers = {})
    /\ [][ /\ running
           /\ Deinit => timers' = {t \in timers : t.id # s_hr_alert_timer} ]_vars

\* deinit has cancelled the timer of an alert entered at 0 and re-armed at
\* 30, before its expiry at 90.
C20_Witness ==
    /\ ~running /\ s_hr_alert_active /\ vibes = 1 /\ now = 60
    /\ s_hr_sample_count = 3 /\ s_hr_sample_times[2] = 30
    /\ s_hr_alert_timer = NULL /\ timers = {} /\ ~staleCancel

\* C21: the engine starts with the alert inactive and no timer; while the
\* app runs and app_timer_register succeeds, the alert flag is true iff a
\* sustain timer is pending (the one the handle names); every qualifying
\* tick, entry or re-trigger, leaves one armed, and the expiry clears flag
\* and handle in one step.
C21_AlertIffTimerPending ==
    /\ ~s_hr_alert_active /\ s_hr_alert_timer = NULL /\ timers = {}
    /\ [](running =>
            /\ s_hr_alert_active <=> (timers # {})
            /\ s_hr_alert_active <=> (s_hr_alert_timer # NULL)
            /\ s_hr_alert_active => \E d \in now .. (now + HR_ALERT_WINDOW_SEC) :
                                        ArmedFor(d))
    /\ [][ /\ QualifyingTick =>
                 s_hr_alert_active' /\ ArmedFor_(now + HR_ALERT_WINDOW_SEC)
           /\ TimerFire =>
                 /\ s_hr_alert_active /\ s_hr_alert_timer # NULL
                 /\ ~s_hr_alert_active' /\ s_hr_alert_timer' = NULL
                 /\ timers' = {} ]_vars

\* The alert entered at 0 has expired at 60: flag false, handle null, no
\* timer pending, the spread of 30 still stored.
C21_Witness ==
    /\ running /\ now = 60 /\ vibes = 1 /\ s_last_window_delta = 30
    /\ ~s_hr_alert_active /\ s_hr_alert_timer = NULL /\ timers = {}
    /\ s_hr_sample_count = 2 /\ s_hr_sample_times[1] = 0

\* C22: in every state between handlers the stored spread, which is the one
\* shown, is max - min of the values now retained, 0 when fewer than 2 are
\* retained; the window changes only in a tick that records a sample, and the
\* spread only in such a tick.
C22_StoredSpreadIsCurrent ==
    /\ [](/\ s_last_window_delta =
                IF s_hr_sample_count < 2 THEN 0
                ELSE Largest(RetainedValues) - Smallest(RetainedValues)
          /\ s_last_filtered_hr > 0 =>
                s_hr_buffer = Decimal(s_last_filtered_hr) \o " BPM | Δ"
                                 \o Decimal(s_last_window_delta))
    /\ [][ (\/ s_last_window_delta' # s_last_window_delta
            \/ Retained_ # Retained) => RawTick ]_vars

\* 70, 100, 100 entered the alert; a fourth sample of 99 evicted the 70, and
\* the spread stored and shown is 1 while the alert is still active.
C22_Witness ==
    /\ s_hr_alert_active /\ s_last_window_delta = 1 /\ s_hr_sample_count = 3
    /\ s_hr_sample_values[0] = 100 /\ s_hr_sample_values[1] = 100
    /\ s_hr_sample_values[2] = 99 /\ s_hr_buffer = "72 BPM | Δ1"

====
